---------------------------- MODULE Spec2Model ----------------------------
(***************************************************************************)
(* Model of predict.py: MarkovChainGenerator (clean_text, process_epub,    *)
(* save_word_pairs, generate_text) and main.                               *)
(*                                                                         *)
(* A character is a one-element string; characters outside ASCII are       *)
(* written by name: "LDQUO" is U+201C, "RDQUO" is U+201D, "EMDASH" is      *)
(* U+2014, "TAB" is U+0009.  A text (str) is a sequence of characters, a   *)
(* token is a non-empty text without whitespace.                           *)
(***************************************************************************)
EXTENDS Integers, Sequences, FiniteSets, TLC

VARIABLES
    word_pairs,   \* self.word_pairs: insertion-ordered dict, as a sequence of [key, vals]
    words,        \* process_epub's local words: the tokens of the last paragraph
    npars,        \* number of paragraphs process_epub has consumed
    observed,     \* every adjacency <<token, next token>> seen so far, in order
    pc,           \* position of the caller
    caller,       \* "main" (the program) or "client" (any user of the class)
    raised,       \* the exception raised inside the last method call, or "none"
    error,        \* the exception that reached the caller from it, or "none"
    exit_code,    \* process exit status set by main: -1 while running
    csv_file,     \* rows of the file at output_path
    save,         \* outcome of the last save_word_pairs call
    gen,          \* arguments and outcome of the last generate_text call
    norm          \* the normaliser run on its own: [pc, raw, text, words]

vars == <<word_pairs, words, npars, observed, pc, caller, raised, error, exit_code,
          csv_file, save, gen, norm>>

-----------------------------------------------------------------------------
(* Bounds *)

MaxPars == 2        \* paragraphs in the document
MaxLength == 3      \* the --length argument
MaxRawLen == 3      \* characters in a text given to the normaliser alone

Max(a, b) == IF a >= b THEN a ELSE b

SeqsUpTo(S, n) == UNION {[1..k -> S] : k \in 0..n}

-----------------------------------------------------------------------------
(* Text Normaliser: clean_text and str.split *)

\* the characters of the punctuation string of clean_text
punctuation ==
    {"\"", ".", ",", "(", ")", "?", "!", ":", "LDQUO", ";", "[", "]", "{", "}", "'"}

Whitespace == {" ", "TAB"}

Lower(c) == CASE c = "A" -> "a" [] c = "B" -> "b" [] c = "T" -> "t" [] OTHER -> c

IsPunct(c) == c \in punctuation

\* text.translate(str.maketrans('', '', punctuation))
Translate(text) == SelectSeq(text, LAMBDA c : ~IsPunct(c))

\* str.lower()
LowerText(text) == [i \in 1..Len(text) |-> Lower(text[i])]

RECURSIVE LStrip(_)
LStrip(text) ==
    IF text # <<>> /\ Head(text) \in Whitespace THEN LStrip(Tail(text)) ELSE text

RECURSIVE RStrip(_)
RStrip(text) ==
    IF text # <<>> /\ text[Len(text)] \in Whitespace
    THEN RStrip(SubSeq(text, 1, Len(text) - 1))
    ELSE text

\* str.strip()
Strip(text) == RStrip(LStrip(text))

clean_text(text) == Strip(LowerText(Translate(text)))

\* str.split(): cut at runs of whitespace, no empty strings
RECURSIVE SplitFrom(_, _, _)
SplitFrom(text, cur, acc) ==
    IF text = <<>> THEN (IF cur = <<>> THEN acc ELSE Append(acc, cur))
    ELSE IF Head(text) \in Whitespace
         THEN SplitFrom(Tail(text), <<>>, IF cur = <<>> THEN acc ELSE Append(acc, cur))
         ELSE SplitFrom(Tail(text), Append(cur, Head(text)), acc)

Split(text) == SplitFrom(text, <<>>, <<>>)

\* words of a paragraph, as process_epub computes them
Words(p) == Split(clean_text(p))

-----------------------------------------------------------------------------
(* self.word_pairs: defaultdict(list), insertion-ordered *)

EmptyDict == <<>>

Keys(d) == {d[i].key : i \in DOMAIN d}

\* k in d
Contains(d, k) == k \in Keys(d)

IndexOf(d, k) == CHOOSE i \in DOMAIN d : d[i].key = k

\* d[k] of a defaultdict(list): a missing key is inserted with an empty list
DefaultGet(d, k) == IF Contains(d, k) THEN d ELSE Append(d, [key |-> k, vals |-> <<>>])

\* the list stored under a key that is present
GetItem(d, k) == d[IndexOf(d, k)].vals

\* faulty variant: the successor is looked up too, which inserts it
AppendToTouchBoth(d, k, v) ==
    LET d1 == DefaultGet(DefaultGet(d, k), v)
    IN  [d1 EXCEPT ![IndexOf(d1, k)].vals = Append(@, v)]

\* faulty variant: d[k] = [v]
AppendToOverwrite(d, k, v) ==
    LET d1 == DefaultGet(d, k)
    IN  [d1 EXCEPT ![IndexOf(d1, k)].vals = <<v>>]

\* d[k].append(v)
AppendTo(d, k, v) ==
    LET d1 == DefaultGet(d, k)
    IN  [d1 EXCEPT ![IndexOf(d1, k)].vals = Append(@, v)]

\* faulty variant: range(len(words) - 2)
RangeEndShort(ws) == Len(ws) - 2

\* the last i (counted from 1) of: for i in range(len(words) - 1)
RangeEnd(ws) == Len(ws) - 1

\* for i in range(len(words) - 1): self.word_pairs[words[i]].append(words[i + 1])
RECURSIVE RecordPairs(_, _, _)
RecordPairs(d, ws, i) ==
    IF i > RangeEnd(ws) THEN d
    ELSE RecordPairs(AppendTo(d, ws[i], ws[i + 1]), ws, i + 1)


-----------------------------------------------------------------------------
(* save_word_pairs: the rows csv.writer receives *)

Header == << <<"f", "i", "r", "s", "t">>, <<"l", "a", "s", "t">> >>

\* faulty variant: the successors are written last to first
EntryRowsReversed(entry) ==
    [j \in 1..Len(entry.vals) |-> <<entry.key, entry.vals[Len(entry.vals) + 1 - j]>>]

\* for second_word in second_words: writer.writerow([first_word, second_word])
EntryRows(entry) == [j \in 1..Len(entry.vals) |-> <<entry.key, entry.vals[j]>>]

\* for first_word, second_words in self.word_pairs.items(): ...
RECURSIVE DataRows(_, _)
DataRows(d, i) ==
    IF i > Len(d) THEN <<>> ELSE EntryRows(d[i]) \o DataRows(d, i + 1)

\* faulty variant: writer.writerow([second_word, first_word])
ExportRowsSwapped(d) ==
    <<Header>> \o [i \in 1..Len(DataRows(d, 1)) |->
                      <<DataRows(d, 1)[i][2], DataRows(d, 1)[i][1]>>]

\* writer.writerow(['first', 'last']), then the data rows
ExportRows(d) == <<Header>> \o DataRows(d, 1)

-----------------------------------------------------------------------------
(* generate_text *)

\* if start_word not in self.word_pairs: raise ValueError
StartMissing(d, start) == ~Contains(d, start)

\* faulty variant: the loop has no membership test
LoopBreakNever(d, current_word) == FALSE

\* if current_word not in self.word_pairs: break
LoopBreak(d, current_word) == ~Contains(d, current_word)

\* faulty variant: range(length)
IterationsOneMore(length) == Max(0, length)

\* number of iterations of: for _ in range(length - 1)
Iterations(length) == Max(0, length - 1)

\* The loop, with n iterations left; every outcome of random.choice.
\* self.word_pairs[current_word] is a defaultdict lookup, and random.choice
\* of an empty list raises IndexError.
RECURSIVE Walk(_, _, _)
Walk(d, generated_words, n) ==
    LET current_word == generated_words[Len(generated_words)]
    IN  IF n = 0 \/ LoopBreak(d, current_word)
        THEN {[table |-> d, words |-> generated_words, status |-> "ok"]}
        ELSE LET d1 == DefaultGet(d, current_word)
                 candidates == GetItem(d1, current_word)
             IN  IF candidates = <<>>
                 THEN {[table |-> d1, words |-> generated_words, status |-> "IndexError"]}
                 ELSE UNION {Walk(d1, Append(generated_words, candidates[i]), n - 1) :
                                i \in DOMAIN candidates}

\* faulty variant: the start word is tested by looking it up (if not self.word_pairs[start_word])
GenerateOutcomesLookup(d, start_word, length) ==
    IF StartMissing(d, start_word)
    THEN {[table |-> DefaultGet(d, start_word), words |-> <<>>, status |-> "ValueError"]}
    ELSE Walk(d, <<start_word>>, Iterations(length))

GenerateOutcomes(d, start_word, length) ==
    IF StartMissing(d, start_word)
    THEN {[table |-> d, words |-> <<>>, status |-> "ValueError"]}
    ELSE Walk(d, <<start_word>>, Iterations(length))

\* ' '.join(generated_words)
RECURSIVE JoinSpace(_)
JoinSpace(ws) ==
    IF ws = <<>> THEN <<>>
    ELSE IF Len(ws) = 1 THEN ws[1]
    ELSE ws[1] \o <<" ">> \o JoinSpace(Tail(ws))

-----------------------------------------------------------------------------
(* Inputs *)

\* The paragraph texts p.get_text() can give, in order:
\*   ""   " A' "   "T c s. T c r."   "r t"   "c,s  t"   "t\tt"
Paragraphs ==
    { <<>>,
      <<" ", "A", "'", " ">>,
      <<"T", " ", "c", " ", "s", ".", " ", "T", " ", "c", " ", "r", ".">>,
      <<"r", " ", "t">>,
      <<"c", ",", "s", " ", " ", "t">>,
      <<"t", "TAB", "t">> }

\* --start-word: two tokens of the paragraphs and the default 'o'
StartWords == {<<"t">>, <<"r">>, <<"o">>}

Lengths == 0..MaxLength

RawChars == {"a", "B", " ", "TAB", "'", ",", "LDQUO", "RDQUO", "EMDASH"}
RawTexts == SeqsUpTo(RawChars, MaxRawLen)

-----------------------------------------------------------------------------
(* The callers: main, and a client that builds once and then calls          *)
(* save_word_pairs and generate_text in any order.                         *)

\* done: an earlier call wrote every row; twice: two calls have
NoSave == [status |-> "none", done |-> FALSE, twice |-> FALSE]
NoGen == [start |-> <<>>, length |-> 0, status |-> "none", words |-> <<>>, text |-> <<>>]
NormIdle == [pc |-> "idle", raw |-> <<>>, text |-> <<>>, words |-> <<>>]

\* where the caller goes when process_epub returns
AfterBuild == IF caller = "main" THEN "save" ELSE "idle"

\* where the caller goes when save_word_pairs returns
AfterSave == IF caller = "main" THEN "generate" ELSE "idle"

\* where the caller goes when generate_text returns
AfterGenerate == IF caller = "main" THEN "done" ELSE "idle"

\* main: except Exception: logging.error(...); sys.exit(1)
AfterException(from) ==
    IF caller = "main" THEN "exit1" ELSE IF from = "process" THEN "failed" ELSE "idle"

ExitAfterException == IF caller = "main" THEN 1 ELSE exit_code

CanCall(at) ==
    \/ caller = "main" /\ pc = at
    \/ caller = "client" /\ pc = "idle"

InitMain ==
    /\ word_pairs = EmptyDict
    /\ words = <<>>
    /\ npars = 0
    /\ observed = <<>>
    /\ pc = "process"
    /\ raised = "none"
    /\ error = "none"
    /\ exit_code = -1
    /\ csv_file = <<>>
    /\ save = NoSave
    /\ gen = NoGen

Init == InitMain /\ caller = "main" /\ norm = NormIdle

InitAPI == InitMain /\ caller = "client" /\ norm = NormIdle

\* the adjacencies of one paragraph, left to right
Adjacencies(ws) == [i \in 1..(Len(ws) - 1) |-> <<ws[i], ws[i + 1]>>]

\* one paragraph of process_epub's loops
ProcessParagraph(p) ==
    /\ pc = "process"
    /\ npars < MaxPars
    /\ words' = Words(p)
    /\ word_pairs' = RecordPairs(word_pairs, words', 1)
    /\ npars' = npars + 1
    /\ observed' = observed \o Adjacencies(words')
    /\ UNCHANGED <<pc, caller, raised, error, exit_code, csv_file, save, gen, norm>>

\* the loops of process_epub end and it returns
ProcessDone ==
    /\ pc = "process"
    /\ pc' = AfterBuild
    /\ UNCHANGED <<word_pairs, words, npars, observed, caller, raised, error, exit_code,
                   csv_file, save, gen, norm>>

\* faulty variant: the except clause of process_epub logs and does not re-raise
ProcessFailSwallowed ==
    /\ pc = "process"
    /\ raised' = "DecodeError"
    /\ pc' = AfterBuild
    /\ UNCHANGED <<word_pairs, words, npars, observed, caller, error, exit_code,
                   csv_file, save, gen, norm>>

\* read_epub, get_content or BeautifulSoup raises: logged and re-raised
ProcessFail ==
    /\ pc = "process"
    /\ raised' = "DecodeError"
    /\ error' = "DecodeError"
    /\ pc' = AfterException("process")
    /\ exit_code' = ExitAfterException
    /\ UNCHANGED <<word_pairs, words, npars, observed, caller, csv_file, save, gen, norm>>

\* save_word_pairs writes every row and returns
SaveWordPairs ==
    /\ CanCall("save")
    /\ csv_file' = ExportRows(word_pairs)
    /\ save' = [status |-> "ok", done |-> TRUE, twice |-> save.done]
    /\ raised' = "none"
    /\ error' = "none"
    /\ pc' = AfterSave
    /\ UNCHANGED <<word_pairs, words, npars, observed, caller, exit_code, gen, norm>>

\* open or a write raises: the file is as it was (open failed) or holds the
\* rows written before the failure; logged and re-raised
SaveWordPairsFail ==
    /\ CanCall("save")
    /\ \/ csv_file' = csv_file
       \/ \E k \in 0..Len(ExportRows(word_pairs)) :
              csv_file' = SubSeq(ExportRows(word_pairs), 1, k)
    /\ save' = [save EXCEPT !.status = "IOError"]
    /\ raised' = "IOError"
    /\ error' = "IOError"
    /\ pc' = AfterException("save")
    /\ exit_code' = ExitAfterException
    /\ UNCHANGED <<word_pairs, words, npars, observed, caller, gen, norm>>

GenerateText(start_word, length) ==
    /\ CanCall("generate")
    /\ \E o \in GenerateOutcomes(word_pairs, start_word, length) :
          /\ word_pairs' = o.table
          /\ gen' = [start |-> start_word, length |-> length, status |-> o.status,
                     words |-> o.words,
                     text |-> IF o.status = "ok" THEN JoinSpace(o.words) ELSE <<>>]
          /\ raised' = IF o.status = "ok" THEN "none" ELSE o.status
          /\ error' = raised'
          /\ pc' = IF o.status = "ok" THEN AfterGenerate ELSE AfterException("generate")
          /\ exit_code' = IF o.status = "ok"
                          THEN (IF caller = "main" THEN 0 ELSE exit_code)
                          ELSE ExitAfterException
    /\ UNCHANGED <<words, npars, observed, caller, csv_file, save, norm>>

Next ==
    \/ \E p \in Paragraphs : ProcessParagraph(p)
    \/ ProcessDone
    \/ ProcessFail
    \/ SaveWordPairs
    \/ SaveWordPairsFail
    \/ \E s \in StartWords, n \in Lengths : GenerateText(s, n)

Spec == Init /\ [][Next]_vars

SpecAPI == InitAPI /\ [][Next]_vars

-----------------------------------------------------------------------------
(* The normaliser on its own, one step of clean_text / split at a time *)

InitNorm ==
    /\ InitMain
    /\ caller = "main"
    /\ norm \in {[pc |-> "raw", raw |-> r, text |-> r, words |-> <<>>] : r \in RawTexts}

NormStep(from, to, text, ws) ==
    /\ norm.pc = from
    /\ norm' = [norm EXCEPT !.pc = to, !.text = text, !.words = ws]
    /\ UNCHANGED <<word_pairs, words, npars, observed, pc, caller, raised, error,
                   exit_code, csv_file, save, gen>>

NormTranslate == NormStep("raw", "translated", Translate(norm.text), <<>>)
NormLower == NormStep("translated", "lowered", LowerText(norm.text), <<>>)
NormStrip == NormStep("lowered", "stripped", Strip(norm.text), <<>>)
NormSplit == NormStep("stripped", "split", norm.text, Split(norm.text))

NextNorm == NormTranslate \/ NormLower \/ NormStrip \/ NormSplit

SpecNorm == InitNorm /\ [][NextNorm]_vars

-----------------------------------------------------------------------------
(* Operators the properties are stated with *)

\* number of successors stored in a table, over all keys
RECURSIVE TotalVals(_)
TotalVals(d) == IF d = <<>> THEN 0 ELSE Len(d[1].vals) + TotalVals(Tail(d))

ValsOrEmpty(d, k) == IF k \in Keys(d) THEN GetItem(d, k) ELSE <<>>

\* the tokens that follow k in ws, left to right
Followers(ws, k) ==
    LET adj == SelectSeq(Adjacencies(ws), LAMBDA a : a[1] = k)
    IN  [i \in 1..Len(adj) |-> adj[i][2]]

Firsts(pairs) == {pairs[i][1] : i \in DOMAIN pairs}

\* position of the first pair of a sequence that starts with k
FirstPos(pairs, k) ==
    CHOOSE i \in DOMAIN pairs :
        pairs[i][1] = k /\ \A j \in 1..(i - 1) : pairs[j][1] # k

WithFirst(pairs, k) == SelectSeq(pairs, LAMBDA r : r[1] = k)

Count(seq, v) == Cardinality({i \in DOMAIN seq : seq[i] = v})

IsPrefix(a, b) == Len(a) <= Len(b) /\ SubSeq(b, 1, Len(a)) = a

\* a table rebuilt from data rows: each successor appended to its predecessor's entry
RECURSIVE Reparse(_)
Reparse(rows) ==
    IF rows = <<>> THEN EmptyDict
    ELSE LET r == rows[Len(rows)]
         IN  AppendTo(Reparse(SubSeq(rows, 1, Len(rows) - 1)), r[1], r[2])

\* the punctuation set as the specification lists it: with both curly double quotes
ListedPunctuation == punctuation \cup {"RDQUO"}

-----------------------------------------------------------------------------
(* Properties *)

\* C1: generate_text fails with the not-found error exactly when the start word
\* is not a key of the table; the failed call produces no output token and
\* leaves the table as it was.
C1_UnknownStartFails ==
    [][pc = "generate" =>
        LET missing == gen'.start \notin Keys(word_pairs)
        IN  /\ (gen'.status = "ValueError") <=> missing
            /\ missing => /\ word_pairs' = word_pairs
                          /\ gen'.words = <<>>
                          /\ gen'.text = <<>>
                          /\ error' = "ValueError"]_vars

\* a failed call whose start word occurs in the table only as a successor
C1_Witness ==
    /\ gen.status = "ValueError"
    /\ \E i \in DOMAIN word_pairs : \E j \in DOMAIN word_pairs[i].vals :
           word_pairs[i].vals[j] = gen.start

\* C2: for a start word that is a key and a length L >= 1, whatever random.choice
\* picks, generate_text returns a sequence that begins with the start word, has
\* between 1 and L tokens, moves from each token to a member of its table entry,
\* and is shorter than L only if its last token has no entry; with L = 1 it is
\* exactly the start word.
C2_WalkShape ==
    (gen.status # "none" /\ gen.length >= 1 /\ gen.start \in Keys(word_pairs)) =>
        /\ gen.status = "ok"
        /\ Len(gen.words) >= 1 /\ Len(gen.words) <= gen.length
        /\ gen.words[1] = gen.start
        /\ \A i \in 2..Len(gen.words) :
               /\ gen.words[i - 1] \in Keys(word_pairs)
               /\ Count(GetItem(word_pairs, gen.words[i - 1]), gen.words[i]) >= 1
        /\ Len(gen.words) < gen.length =>
               gen.words[Len(gen.words)] \notin Keys(word_pairs)
        /\ gen.length = 1 => gen.words = <<gen.start>>
        /\ Split(gen.text) = gen.words

\* a walk that ended early, after at least one step
C2_Witness ==
    /\ gen.status = "ok"
    /\ Len(gen.words) >= 2
    /\ Len(gen.words) < gen.length

\* what one paragraph of n tokens does to the table
C3_Step ==
    LET n == Len(words')
    IN  /\ TotalVals(word_pairs') = TotalVals(word_pairs) + Max(0, n - 1)
        /\ Keys(word_pairs') = Keys(word_pairs) \cup {words'[i] : i \in 1..(n - 1)}
        /\ \A k \in Keys(word_pairs') :
               GetItem(word_pairs', k) = ValsOrEmpty(word_pairs, k) \o Followers(words', k)
        /\ n < 2 => word_pairs' = word_pairs

\* C3: a paragraph of n tokens adds exactly max(0, n-1) adjacencies, token[i+1]
\* appended to the entry of token[i] for i in increasing order; a paragraph of
\* fewer than 2 tokens adds nothing, and nothing is recorded across paragraphs.
C3_BuildAddsAdjacencies == [][npars' = npars + 1 => C3_Step]_vars

\* two paragraphs of at least 2 tokens each, and the last token of the first is
\* not recorded as followed by the first token of the second
C3_Witness ==
    /\ npars = 2
    /\ Len(words) >= 3
    /\ Len(observed) > Len(words) - 1
    /\ LET last == observed[Len(observed) - (Len(words) - 1)][2]
       IN  Count(ValsOrEmpty(word_pairs, last), words[1]) = 0

\* C4: the export is the header row and then one row per recorded adjacency,
\* predecessors in the order their entries were created, successors of one
\* predecessor in the order observed; the data rows are as many as the
\* adjacencies recorded since the table was created.
C4_ExportRowsInOrder ==
    save.status = "ok" =>
        /\ csv_file # <<>>
        /\ Head(csv_file) = Header
        /\ LET R == Tail(csv_file)
           IN  /\ Len(R) = Len(observed)
               /\ \A k \in Firsts(R) \cup Firsts(observed) :
                      WithFirst(R, k) = WithFirst(observed, k)
               /\ \A i, j \in DOMAIN R :
                      (i < j /\ R[i][1] # R[j][1]) =>
                          FirstPos(observed, R[i][1]) < FirstPos(observed, R[j][1])

\* an export whose rows are not in the order the adjacencies were observed
C4_Witness ==
    /\ save.status = "ok"
    /\ Len(csv_file) >= 4
    /\ Tail(csv_file) # observed
    /\ \E i, j \in DOMAIN observed : i < j /\ observed[i] = observed[j]

\* C5: after the build, export and generate calls, whether they succeed, stop
\* early or fail, leave the table as it was at the end of the build, so two
\* exports with nothing between them that builds write the same rows.
C5_ReadOnlyAfterBuild ==
    [][pc # "process" =>
        /\ word_pairs' = word_pairs
        /\ (save.status = "ok" /\ save'.status = "ok") => csv_file' = csv_file]_vars

\* a client that has exported twice, and whose last generate call failed
C5_Witness ==
    /\ caller = "client"
    /\ save.status = "ok" /\ save.twice
    /\ gen.status = "ValueError"
    /\ word_pairs # EmptyDict

\* C6: when decoding fails during the build, the failure reaches the caller as an
\* error, main exits with status 1, and nothing is exported or generated from
\* the partial table.
C6_FailedBuildNotComplete ==
    raised = "DecodeError" =>
        /\ error = "DecodeError"
        /\ pc = "exit1"
        /\ exit_code = 1
        /\ save = NoSave
        /\ gen = NoGen
        /\ csv_file = <<>>

\* a build that failed after a paragraph was recorded
C6_Witness ==
    /\ raised = "DecodeError"
    /\ npars >= 1
    /\ word_pairs # EmptyDict

\* C7: the normaliser deletes every character of the punctuation set, both curly
\* double quotes included, so that no token holds one of them and the letters
\* around a deleted character are one token.
C7_PunctuationDeleted ==
    norm.pc = "split" =>
        /\ \A i \in DOMAIN norm.words : \A j \in DOMAIN norm.words[i] :
               norm.words[i][j] \notin ListedPunctuation
        /\ norm.words =
               Split(Strip(LowerText(SelectSeq(norm.raw,
                                               LAMBDA c : c \notin ListedPunctuation))))

\* C8: the table rebuilt from the exported data rows has the keys of the table
\* and, under each key, every successor as many times.
C8_RoundTrip ==
    save.status = "ok" =>
        LET t == Reparse(Tail(csv_file))
        IN  /\ Keys(t) = Keys(word_pairs)
            /\ \A k \in Keys(t) : \A i \in DOMAIN word_pairs :
                   \A v \in {word_pairs[i].key} \cup {word_pairs[i].vals[j] :
                                                        j \in DOMAIN word_pairs[i].vals} :
                       Count(GetItem(t, k), v) = Count(GetItem(word_pairs, k), v)
            /\ \A k \in Keys(t) : Len(GetItem(t, k)) = Len(GetItem(word_pairs, k))

\* an export of a table with several keys, one of them with a repeated successor
C8_Witness ==
    /\ save.status = "ok"
    /\ Len(word_pairs) >= 2
    /\ \E i \in DOMAIN word_pairs : \E j, k \in DOMAIN word_pairs[i].vals :
           j # k /\ word_pairs[i].vals[j] = word_pairs[i].vals[k]

\* C9: in every state a token is a key of the table exactly if it was seen
\* followed by another token in a paragraph processed so far, and no key has
\* an empty successor list.
C9_KeysAreObservedPredecessors ==
    /\ Keys(word_pairs) = Firsts(observed)
    /\ \A i \in DOMAIN word_pairs : word_pairs[i].vals # <<>>

\* a walk has ended early at a token that is a successor and not a key
C9_Witness ==
    /\ caller = "client"
    /\ gen.status = "ok"
    /\ Len(gen.words) >= 2
    /\ Len(gen.words) < gen.length
    /\ gen.words[Len(gen.words)] \notin Keys(word_pairs)

\* C10: the table starts empty and every step keeps each key in its place with
\* its earlier successor list a prefix of the later one.
C10_AppendOnly ==
    /\ word_pairs = EmptyDict
    /\ [][\A i \in DOMAIN word_pairs :
              /\ i \in DOMAIN word_pairs'
              /\ word_pairs'[i].key = word_pairs[i].key
              /\ IsPrefix(word_pairs[i].vals, word_pairs'[i].vals)]_vars

\* the second paragraph has extended an entry the first one created
C10_Witness ==
    /\ npars = 2
    /\ Len(word_pairs) >= 2
    /\ \E i \in DOMAIN word_pairs : Len(word_pairs[i].vals) > Len(Followers(words, word_pairs[i].key))
                                    /\ Followers(words, word_pairs[i].key) # <<>>

=============================================================================
